---- MODULE Spec2Model ----
(***************************************************************************)
(* Model of overlay.py: two-share visual cryptography.                     *)
(*                                                                         *)
(* numpy arrays are objects on a heap and are passed by reference, so the  *)
(* heap is a sequence of arrays and an array is named by its index in it.  *)
(* A sample is an integer: 0 is 0.0 (black), 1 is 1.0 (white), 2 is some   *)
(* other non-zero sample; UNINIT marks a sample of an np.empty array that  *)
(* has not been written yet.                                               *)
(***************************************************************************)
EXTENDS Integers, Sequences, FiniteSets

VARIABLES pc, heap, files, last, oneChannelData, firstData, secondData, overlayData

vars == <<pc, heap, files, last, oneChannelData, firstData, secondData, overlayData>>

\* ------------------------------------------------------------------ bounds
\* cells of the image main reads
MaxCells == 4
\* cells, and each dimension, of an array a caller passes in or encodes
MaxArgCells == 2
\* a caller that holds this many arrays makes no further call
MaxObjects == 3

\* --------------------------------------------------------------- constants
SLASH == TRUE
BACKSLASH == FALSE
ENCODED_1 == "encoded_1.png"
ENCODED_2 == "encoded_2.png"
OVERLAY == "overlay.png"

UNINIT == -1
Samples == {0, 1, 2}

\* ------------------------------------------------------------------ arrays
Indices(height, width) == (0 .. height - 1) \X (0 .. width - 1)

\* the arrays of at most maxCells samples, each dimension in minDim .. maxCells
Arrays(minDim, maxCells) ==
    UNION { { [height |-> hh, width |-> ww, data |-> d] :
                d \in [Indices(hh, ww) -> Samples] } :
            <<hh, ww>> \in { s \in (minDim .. maxCells) \X (minDim .. maxCells) :
                               s[1] * s[2] <= maxCells } }

\* np.empty((height, width)): a new array object, no sample written
np_empty(height, width, h) ==
    Append(h, [height |-> height, width |-> width,
               data |-> [p \in Indices(height, width) |-> UNINIT]])

\* imageData[idx] = value
setitem(imageData, idx, value, h) ==
    [h EXCEPT ![imageData].data = [@ EXCEPT ![idx] = value]]

drawSlash_shifted(topRow, leftCol, imageData, h) ==
    LET topLeft     == <<topRow*2    , leftCol*2    >>
        topRight    == <<topRow*2    , leftCol*2 + 1>>
        bottomLeft  == <<topRow*2 + 1, leftCol*2    >>
        h1 == setitem(imageData, topLeft, 1, h)
        h2 == setitem(imageData, topRight, 0, h1)
        h3 == setitem(imageData, bottomLeft, 0, h2)
    IN  setitem(imageData, topRight, 1, h3)

drawSlash(topRow, leftCol, imageData, h) ==
    LET topLeft     == <<topRow*2    , leftCol*2    >>
        topRight    == <<topRow*2    , leftCol*2 + 1>>
        bottomLeft  == <<topRow*2 + 1, leftCol*2    >>
        bottomRight == <<topRow*2 + 1, leftCol*2 + 1>>
        h1 == setitem(imageData, topLeft, 1, h)
        h2 == setitem(imageData, topRight, 0, h1)
        h3 == setitem(imageData, bottomLeft, 0, h2)
    IN  setitem(imageData, bottomRight, 1, h3)

drawBackslash(topRow, leftCol, imageData, h) ==
    LET topLeft     == <<topRow*2    , leftCol*2    >>
        topRight    == <<topRow*2    , leftCol*2 + 1>>
        bottomLeft  == <<topRow*2 + 1, leftCol*2    >>
        bottomRight == <<topRow*2 + 1, leftCol*2 + 1>>
        h1 == setitem(imageData, topLeft, 0, h)
        h2 == setitem(imageData, topRight, 1, h1)
        h3 == setitem(imageData, bottomLeft, 1, h2)
    IN  setitem(imageData, bottomRight, 0, h3)

\* ------------------------------------------------------------------ encode
\* The random source: the k-th call of randomSlash returns rnd[k]; n calls
\* were made before.
randomSlash(rnd, n) == rnd[n + 1]

\* the body of the two loops for one cell, given the direction drawn
encodeCell_swapped(row, col, direction, originalData, first, second, h) ==
    IF direction = SLASH
    THEN LET h1 == drawSlash(row, col, first, h)
         IN  IF h1[originalData].data[<<row, col>>] = 0
             THEN drawSlash(row, col, second, h1)
             ELSE drawBackslash(row, col, second, h1)
    ELSE LET h1 == drawBackslash(row, col, first, h)
         IN  IF h1[originalData].data[<<row, col>>] = 0
             THEN drawBackslash(row, col, second, h1)
             ELSE drawSlash(row, col, second, h1)

encodeCell_leak(row, col, direction, originalData, first, second, h) ==
    IF direction = SLASH
    THEN LET h1 == drawSlash(row, col, first, h)
         IN  IF h1[originalData].data[<<row, col>>] = 0
             THEN drawBackslash(row, col, second, h1)
             ELSE drawSlash(row, col, second, h1)
    ELSE LET h1 == drawBackslash(row, col, first, h)
         IN  IF h1[originalData].data[<<row, col>>] = 0
             THEN drawBackslash(row, col, second, h1)
             ELSE drawSlash(row, col, second, h1)

encodeCell(row, col, direction, originalData, first, second, h) ==
    IF direction = SLASH
    THEN LET h1 == drawSlash(row, col, first, h)
         IN  IF h1[originalData].data[<<row, col>>] = 0
             THEN drawBackslash(row, col, second, h1)
             ELSE drawSlash(row, col, second, h1)
    ELSE LET h1 == drawBackslash(row, col, first, h)
         IN  IF h1[originalData].data[<<row, col>>] = 0
             THEN drawSlash(row, col, second, h1)
             ELSE drawBackslash(row, col, second, h1)

\* for col in range(width): for row in range(height)
RECURSIVE encodeLoop_colMajor(_, _, _, _, _, _, _, _)
encodeLoop_colMajor(row, col, n, rnd, originalData, first, second, h) ==
    LET height == h[originalData].height
        width  == h[originalData].width
    IN  IF col >= width THEN [heap |-> h, n |-> n]
        ELSE IF row >= height
        THEN encodeLoop_colMajor(0, col + 1, n, rnd, originalData, first, second, h)
        ELSE encodeLoop_colMajor(row + 1, col, n + 1, rnd, originalData, first, second,
                 encodeCell(row, col, randomSlash(rnd, n), originalData, first, second, h))

\* for row in range(height): for col in range(width), entered at (row, col)
\* after n draws
RECURSIVE encodeLoop(_, _, _, _, _, _, _, _)
encodeLoop(row, col, n, rnd, originalData, first, second, h) ==
    LET height == h[originalData].height
        width  == h[originalData].width
    IN  IF row >= height THEN [heap |-> h, n |-> n]
        ELSE IF col >= width
        THEN encodeLoop(row + 1, 0, n, rnd, originalData, first, second, h)
        ELSE encodeLoop(row, col + 1, n + 1, rnd, originalData, first, second,
                 encodeCell(row, col, randomSlash(rnd, n), originalData, first, second, h))

shareShape_narrow(originalData, h) ==
    <<h[originalData].height * 2, h[originalData].width + 1>>

\* (height*2, width*2)
shareShape(originalData, h) ==
    <<h[originalData].height * 2, h[originalData].width * 2>>

\* Outcome of a call: the heap and the files after it, the exception raised
\* ("" when it returns), the arrays returned, the directions drawn.
\* io is the number of the imsave call of this invocation that fails
\* (0: none does).
Outcome(h, fs, exc, res, drawn) ==
    [heap |-> h, files |-> fs, exc |-> exc, res |-> res, drawn |-> drawn]

encode(originalData, rnd, io, h, fs) ==
    LET shape  == shareShape(originalData, h)
        h1     == np_empty(shape[1], shape[2], h)
        first  == Len(h1)
        h2     == np_empty(shape[1], shape[2], h1)
        second == Len(h2)
        loop   == encodeLoop(0, 0, 0, rnd, originalData, first, second, h2)
        drawn  == [k \in 1 .. loop.n |-> rnd[k]]
    IN  IF io = 1 THEN Outcome(h, fs, "OSError", <<>>, drawn)
        ELSE IF io = 2 THEN Outcome(h, fs \cup {ENCODED_1}, "OSError", <<>>, drawn)
        ELSE Outcome(loop.heap, fs \cup {ENCODED_1, ENCODED_2}, "", <<first, second>>, drawn)

\* ----------------------------------------------------------------- overlay
InBounds(idx, imageData, h) ==
    idx \in Indices(h[imageData].height, h[imageData].width)

\* The body of the two loops for one pixel.  `or` does not read secondData
\* when firstData is black there; an index outside secondData raises.
overlayPixel_xor(row, col, first, second, out, h) ==
    IF ~InBounds(<<row, col>>, second, h) THEN [heap |-> h, exc |-> "IndexError"]
    ELSE IF (h[first].data[<<row, col>>] = 0) # (h[second].data[<<row, col>>] = 0)
    THEN [heap |-> setitem(out, <<row, col>>, 0, h), exc |-> ""]
    ELSE [heap |-> setitem(out, <<row, col>>, 1, h), exc |-> ""]

overlayPixel(row, col, first, second, out, h) ==
    IF h[first].data[<<row, col>>] = 0
    THEN [heap |-> setitem(out, <<row, col>>, 0, h), exc |-> ""]
    ELSE IF ~InBounds(<<row, col>>, second, h)
    THEN [heap |-> h, exc |-> "IndexError"]
    ELSE IF h[second].data[<<row, col>>] = 0
    THEN [heap |-> setitem(out, <<row, col>>, 0, h), exc |-> ""]
    ELSE [heap |-> setitem(out, <<row, col>>, 1, h), exc |-> ""]

RECURSIVE overlayLoop(_, _, _, _, _, _)
overlayLoop(row, col, first, second, out, h) ==
    LET height == h[first].height
        width  == h[first].width
    IN  IF row >= height THEN [heap |-> h, exc |-> ""]
        ELSE IF col >= width
        THEN overlayLoop(row + 1, 0, first, second, out, h)
        ELSE LET px == overlayPixel(row, col, first, second, out, h)
             IN  IF px.exc # "" THEN px
                 ELSE overlayLoop(row, col + 1, first, second, out, px.heap)

\* the loop writes into firstData instead of a new array
overlay_inplace(first, second, io, h, fs) ==
    LET loop == overlayLoop(0, 0, first, second, first, h)
    IN  IF loop.exc # "" THEN Outcome(h, fs, loop.exc, <<>>, <<>>)
        ELSE IF io = 1 THEN Outcome(h, fs, "OSError", <<>>, <<>>)
        ELSE Outcome(loop.heap, fs \cup {OVERLAY}, "", <<first>>, <<>>)

overlay(first, second, io, h, fs) ==
    LET h1   == np_empty(h[first].height, h[first].width, h)
        out  == Len(h1)
        loop == overlayLoop(0, 0, first, second, out, h1)
    IN  IF loop.exc # "" THEN Outcome(h, fs, loop.exc, <<>>, <<>>)
        ELSE IF io = 1 THEN Outcome(h, fs, "OSError", <<>>, <<>>)
        ELSE Outcome(loop.heap, fs \cup {OVERLAY}, "", <<out>>, <<>>)

\* ------------------------------------------------------------ main program
Call(op, args, o) ==
    [op |-> op, args |-> args, res |-> o.res, exc |-> o.exc, drawn |-> o.drawn]

NoCall == [op |-> "none", args |-> <<>>, res |-> <<>>, exc |-> "", drawn |-> <<>>]

Cells(a) == a.height * a.width

Init ==
    /\ pc = "start"
    /\ heap = <<>>
    /\ files = {}
    /\ last = NoCall
    /\ oneChannelData = 0
    /\ firstData = 0
    /\ secondData = 0
    /\ overlayData = 0

\* originalData = mpimg.imread(filename); oneChannelData = oneChannel(originalData)
Imread ==
    /\ pc = "start"
    /\ \/ /\ pc' = "failed"
          /\ last' = [NoCall EXCEPT !.op = "imread", !.exc = "InputReadError"]
          /\ UNCHANGED <<heap, oneChannelData>>
       \/ \E a \in Arrays(1, MaxCells) :
             /\ heap' = <<a>>
             /\ oneChannelData' = 1
             /\ last' = [NoCall EXCEPT !.op = "imread", !.res = <<1>>]
             /\ pc' = "loaded"
    /\ UNCHANGED <<files, firstData, secondData, overlayData>>

\* firstData, secondData = encode(oneChannelData)
CallEncode ==
    /\ pc = "loaded"
    /\ \E rnd \in [1 .. Cells(heap[oneChannelData]) -> {SLASH, BACKSLASH}], io \in 0 .. 2 :
          \E o \in {encode(oneChannelData, rnd, io, heap, files)} :
              /\ heap' = o.heap
              /\ files' = o.files
              /\ last' = Call("encode", <<oneChannelData>>, o)
              /\ IF o.exc = ""
                 THEN /\ firstData' = o.res[1]
                      /\ secondData' = o.res[2]
                      /\ pc' = "encoded"
                 ELSE /\ UNCHANGED <<firstData, secondData>>
                      /\ pc' = "failed"
    /\ UNCHANGED <<oneChannelData, overlayData>>

\* overlayData = overlay(firstData, secondData)
CallOverlay ==
    /\ pc = "encoded"
    /\ \E io \in 0 .. 1 :
          \E o \in {overlay(firstData, secondData, io, heap, files)} :
              /\ heap' = o.heap
              /\ files' = o.files
              /\ last' = Call("overlay", <<firstData, secondData>>, o)
              /\ IF o.exc = ""
                 THEN /\ overlayData' = o.res[1]
                      /\ pc' = "overlaid"
                 ELSE /\ UNCHANGED overlayData
                      /\ pc' = "failed"
    /\ UNCHANGED <<oneChannelData, firstData, secondData>>

\* plotting: reads the four arrays, writes none
Show ==
    /\ pc = "overlaid"
    /\ pc' = "done"
    /\ UNCHANGED <<heap, files, last, oneChannelData, firstData, secondData, overlayData>>

Next == Imread \/ CallEncode \/ CallOverlay \/ Show

Spec == Init /\ [][Next]_vars

\* ------------------------------------------ encode and overlay as a library
\* Any caller: it holds one array, and calls encode and overlay on any arrays
\* it holds, results of earlier calls included, until a call raises.
InitCalls ==
    /\ pc = "calls"
    /\ \E a \in Arrays(0, MaxArgCells) : heap = <<a>>
    /\ files = {}
    /\ last = NoCall
    /\ oneChannelData = 0
    /\ firstData = 0
    /\ secondData = 0
    /\ overlayData = 0

EncodeCall ==
    /\ pc = "calls"
    /\ Len(heap) < MaxObjects
    /\ \E originalData \in DOMAIN heap :
          /\ heap[originalData].height <= MaxArgCells
          /\ heap[originalData].width <= MaxArgCells
          /\ Cells(heap[originalData]) <= MaxArgCells
          /\ \E rnd \in [1 .. Cells(heap[originalData]) -> {SLASH, BACKSLASH}], io \in 0 .. 2 :
                \E o \in {encode(originalData, rnd, io, heap, files)} :
                    /\ heap' = o.heap
                    /\ files' = o.files
                    /\ last' = Call("encode", <<originalData>>, o)
                    /\ pc' = IF o.exc = "" THEN "calls" ELSE "raised"
    /\ UNCHANGED <<oneChannelData, firstData, secondData, overlayData>>

OverlayCall ==
    /\ pc = "calls"
    /\ Len(heap) < MaxObjects
    /\ \E first \in DOMAIN heap, second \in DOMAIN heap, io \in 0 .. 1 :
          \E o \in {overlay(first, second, io, heap, files)} :
              /\ heap' = o.heap
              /\ files' = o.files
              /\ last' = Call("overlay", <<first, second>>, o)
              /\ pc' = IF o.exc = "" THEN "calls" ELSE "raised"
    /\ UNCHANGED <<oneChannelData, firstData, secondData, overlayData>>

NextCalls == EncodeCall \/ OverlayCall

SpecCalls == InitCalls /\ [][NextCalls]_vars

\* overlay on its own: any two arrays, of equal shape or not
InitOverlay ==
    /\ pc = "calls"
    /\ \E a, b \in Arrays(0, MaxArgCells) : heap = <<a, b>>
    /\ files = {}
    /\ last = NoCall
    /\ oneChannelData = 0
    /\ firstData = 0
    /\ secondData = 0
    /\ overlayData = 0

NextOverlay == Len(heap) = 2 /\ OverlayCall

SpecOverlay == InitOverlay /\ [][NextOverlay]_vars

TypeOK ==
    /\ pc \in {"start", "loaded", "encoded", "overlaid", "done", "failed", "calls", "raised"}
    /\ files \subseteq {ENCODED_1, ENCODED_2, OVERLAY}
    /\ \A id \in DOMAIN heap : DOMAIN heap[id].data = Indices(heap[id].height, heap[id].width)

\* ------------------------------------------------------------------ claims
\* the 2x2 block of array a at cell p of the original:
\* <<topLeft, topRight, bottomLeft, bottomRight>>
Block(a, p) ==
    << a.data[<<p[1]*2, p[2]*2>>],     a.data[<<p[1]*2, p[2]*2 + 1>>],
       a.data[<<p[1]*2 + 1, p[2]*2>>], a.data[<<p[1]*2 + 1, p[2]*2 + 1>>] >>

SlashPattern == <<1, 0, 0, 1>>
BackslashPattern == <<0, 1, 1, 0>>
AllBlack == <<0, 0, 0, 0>>
Pattern(direction) == IF direction = SLASH THEN SlashPattern ELSE BackslashPattern

CellsOf(a) == Indices(a.height, a.width)
SameShape(a, b) == a.height = b.height /\ a.width = b.width
Overlaid == pc \in {"overlaid", "done"}
Encoded == pc \in {"encoded", "overlaid", "done"}

\* C1: every black cell of the original is an all-black 2x2 block of
\* overlay(shareA, shareB).
BlackPreservation ==
    Overlaid =>
        \A p \in CellsOf(heap[oneChannelData]) :
            heap[oneChannelData].data[p] = 0 => Block(heap[overlayData], p) = AllBlack

BlackPreservationWitness ==
    /\ pc = "done"
    /\ \E p \in CellsOf(heap[oneChannelData]) :
          /\ heap[oneChannelData].data[p] = 0
          /\ Block(heap[overlayData], p) = AllBlack

\* C2: every non-zero cell of the original, non-binary ones included, is in
\* the overlay exactly share A's glyph at that cell: two of four sub-pixels
\* black.
WhiteTexture ==
    Overlaid =>
        \A p \in CellsOf(heap[oneChannelData]) :
            heap[oneChannelData].data[p] # 0 =>
                /\ Block(heap[overlayData], p) = Block(heap[firstData], p)
                /\ Block(heap[overlayData], p) \in {SlashPattern, BackslashPattern}
                /\ Cardinality({k \in 1 .. 4 : Block(heap[overlayData], p)[k] = 0}) = 2

WhiteTextureWitness ==
    /\ pc = "done"
    /\ \E p, q \in CellsOf(heap[oneChannelData]) :
          /\ heap[oneChannelData].data[p] = 2
          /\ heap[oneChannelData].data[q] = 1
          /\ Block(heap[overlayData], p) = SlashPattern
          /\ Block(heap[overlayData], q) = BackslashPattern

\* C5: when encode has returned, every 2x2 block of both shares is the Slash
\* or the Backslash pattern; no sub-pixel is unwritten.
GlyphInvariant ==
    Encoded =>
        \A s \in {firstData, secondData} :
            /\ \A p \in CellsOf(heap[oneChannelData]) :
                  Block(heap[s], p) \in {SlashPattern, BackslashPattern}
            /\ \A i \in DOMAIN heap[s].data : heap[s].data[i] # UNINIT

GlyphInvariantWitness ==
    /\ pc = "encoded"
    /\ Cells(heap[oneChannelData]) = 4
    /\ \E p, q \in CellsOf(heap[oneChannelData]) :
          /\ Block(heap[firstData], p) = SlashPattern
          /\ Block(heap[secondData], p) = BackslashPattern
          /\ Block(heap[firstData], q) = BackslashPattern
          /\ Block(heap[secondData], q) = BackslashPattern

\* C7: after the run has ended, all three output images are written or none.
AllOrNoOutputFiles ==
    pc \in {"done", "failed"} => files \in {{}, {ENCODED_1, ENCODED_2, OVERLAY}}

\* the 2x2 scenario [[0,1],[1,0]] and its draws
Scenario ==
    [height |-> 2, width |-> 2,
     data |-> [p \in Indices(2, 2) |-> IF p[1] = p[2] THEN 0 ELSE 1]]

ScenarioDraws == <<SLASH, BACKSLASH, BACKSLASH, SLASH>>

GlyphsAre(a, glyphs) ==
    \A p \in Indices(2, 2) : Block(a, p) = Pattern(glyphs[p[1]*2 + p[2] + 1])

\* C9: encode draws one direction per cell, H*W in all, in row-major order:
\* draw number r*W + c is share A's glyph at (r, c); the 2x2 scenario
\* [[0,1],[1,0]] with draws Slash, Backslash, Backslash, Slash.
DrawOrder ==
    /\ last.op = "encode" => Len(last.drawn) = Cells(heap[oneChannelData])
    /\ pc = "encoded" =>
          \A p \in CellsOf(heap[oneChannelData]) :
              Block(heap[firstData], p) =
                  Pattern(last.drawn[p[1] * heap[oneChannelData].width + p[2] + 1])
    /\ (pc = "encoded" /\ heap[oneChannelData] = Scenario /\ last.drawn = ScenarioDraws) =>
          /\ GlyphsAre(heap[firstData], ScenarioDraws)
          /\ GlyphsAre(heap[secondData], <<BACKSLASH, BACKSLASH, BACKSLASH, BACKSLASH>>)
    /\ (Overlaid /\ heap[oneChannelData] = Scenario
                 /\ GlyphsAre(heap[firstData], ScenarioDraws)) =>
          /\ Block(heap[overlayData], <<0, 0>>) = AllBlack
          /\ Block(heap[overlayData], <<0, 1>>) = BackslashPattern
          /\ Block(heap[overlayData], <<1, 0>>) = BackslashPattern
          /\ Block(heap[overlayData], <<1, 1>>) = AllBlack

DrawOrderWitness ==
    /\ pc = "encoded"
    /\ heap[oneChannelData] = Scenario
    /\ last.drawn = ScenarioDraws
    /\ GlyphsAre(heap[firstData], ScenarioDraws)

\* ---- claims about calls in general (SpecCalls)
Returned(op) == last.op = op /\ last.exc = ""

\* all arrays of shape 2H x 2W made of glyphs only
GlyphArrays(height, width) ==
    { [height |-> 2 * height, width |-> 2 * width,
       data |-> [i \in Indices(2 * height, 2 * width) |->
                   IF g[<<i[1] \div 2, i[2] \div 2>>] = SLASH
                   THEN (IF i[1] % 2 = i[2] % 2 THEN 1 ELSE 0)
                   ELSE (IF i[1] % 2 = i[2] % 2 THEN 0 ELSE 1)]] :
      g \in [Indices(height, width) -> {SLASH, BACKSLASH}] }

\* encode called on array a alone: <<share A, share B>>
SharesOf(a, rnd) ==
    CHOOSE s \in { <<o.heap[o.res[1]], o.heap[o.res[2]]>> : o \in {encode(1, rnd, 0, <<a>>, {})} } : TRUE

\* the pairs of shares encode can return for a
PossiblePairs(a) ==
    { SharesOf(a, rnd) : rnd \in [1 .. Cells(a) -> {SLASH, BACKSLASH}] }

\* the arrays encode can return for a as share number k
PossibleShares(a, k) == { s[k] : s \in PossiblePairs(a) }

\* the array of a's shape with every sample v
Uniform(a, v) == [a EXCEPT !.data = [p \in DOMAIN a.data |-> v]]

\* C3: each share encode returns for an original is one it can return for
\* the all-black and the all-white original of that shape, and, for each
\* share, the set of arrays it can return is the same as for those two: all
\* glyph arrays of the shape.  Share A is the same under the same draws.
ShareSecrecy ==
    Returned("encode") =>
        \A a \in {heap[last.args[1]]} :
            \A pairs \in {PossiblePairs(a)}, glyphs \in {GlyphArrays(a.height, a.width)} :
                \A other \in {Uniform(a, 0), Uniform(a, 1)} :
                    /\ SharesOf(other, last.drawn)[1] = heap[last.res[1]]
                    /\ \A otherPairs \in {PossiblePairs(other)} :
                          \A k \in 1 .. 2 :
                              /\ heap[last.res[k]] \in { s[k] : s \in otherPairs }
                              /\ { s[k] : s \in pairs } = { s[k] : s \in otherPairs }
                              /\ { s[k] : s \in pairs } = glyphs

ShareSecrecyWitness ==
    /\ Returned("encode")
    /\ Cells(heap[last.args[1]]) = 2
    /\ heap[last.args[1]].data[<<0, 0>>] = 0
    /\ heap[last.args[1]].data[<<0, 1>>] = 2
    /\ heap[last.res[1]] # heap[last.res[2]]
    /\ heap[last.res[2]] \in PossibleShares(Uniform(heap[last.args[1]], 1), 2)
    /\ heap[last.res[2]] \in PossibleShares(Uniform(heap[last.args[1]], 0), 2)

\* C4: overlay of two arrays of different shape raises DimensionMismatch and
\* returns nothing.
DimensionMismatchRaised ==
    (last.op = "overlay" /\ ~SameShape(heap[last.args[1]], heap[last.args[2]])) =>
        /\ last.exc = "DimensionMismatch"
        /\ last.res = <<>>

\* C6: on arrays of equal shape overlay is 0 where either input is 0 and 1
\* elsewhere, so it is a function of the two inputs with values in {0, 1}.
OverlayRule ==
    (Returned("overlay") /\ SameShape(heap[last.args[1]], heap[last.args[2]])) =>
        LET a == heap[last.args[1]]
            b == heap[last.args[2]]
            r == heap[last.res[1]]
        IN  \A i \in DOMAIN a.data :
                /\ r.data[i] = IF a.data[i] = 0 \/ b.data[i] = 0 THEN 0 ELSE 1
                /\ r.data[i] \in {0, 1}

OverlayRuleWitness ==
    /\ Returned("overlay")
    /\ last.args = <<1, 2>>
    /\ SameShape(heap[1], heap[2])
    /\ Cells(heap[1]) = 2
    /\ heap[1].data[<<0, 0>>] = 2 /\ heap[2].data[<<0, 0>>] = 2
    /\ heap[1].data[<<0, 1>>] = 0 /\ heap[2].data[<<0, 1>>] = 0
    /\ heap[last.res[1]].data[<<0, 0>>] = 1
    /\ heap[last.res[1]].data[<<0, 1>>] = 0

HasShape(a, height, width) ==
    /\ a.height = height
    /\ a.width = width
    /\ DOMAIN a.data = Indices(height, width)

\* C8: encode of an H x W array returns two arrays of shape 2H x 2W, H = 0
\* and W = 0 included; overlay of two arrays of one shape returns an array
\* of that shape.
DimensionDoubling ==
    /\ Returned("encode") =>
          \A k \in 1 .. 2 :
              /\ Len(last.res) = 2
              /\ HasShape(heap[last.res[k]], 2 * heap[last.args[1]].height,
                                             2 * heap[last.args[1]].width)
    /\ (Returned("overlay") /\ SameShape(heap[last.args[1]], heap[last.args[2]])) =>
          HasShape(heap[last.res[1]], heap[last.args[1]].height, heap[last.args[1]].width)

DimensionDoublingWitness ==
    /\ Returned("encode")
    /\ heap[last.args[1]].height = 0
    /\ heap[last.args[1]].width = 2
    /\ HasShape(heap[last.res[1]], 0, 4)
    /\ HasShape(heap[last.res[2]], 0, 4)

\* C10: a call leaves every array that exists as it is, its arguments
\* included, and what it returns are arrays that did not exist before.
Frame ==
    [][ /\ \A id \in DOMAIN heap : id \in DOMAIN heap' /\ heap'[id] = heap[id]
        /\ \A k \in DOMAIN last'.res : last'.res[k] \notin DOMAIN heap
        /\ \A k, m \in DOMAIN last'.res : k # m => last'.res[k] # last'.res[m] ]_vars

FrameWitness ==
    /\ Returned("overlay")
    /\ Len(heap) = 3
    /\ last.args = <<2, 1>>
    /\ last.res = <<3>>
    /\ Cells(heap[1]) = 2
    /\ heap[2] # heap[1]
    /\ heap[3] = heap[2]

====
